---- MODULE Spec2Model ----
(***************************************************************************)
(* MIDI input and output device sessions (CMIDIInDevice, CMIDIOutDevice).  *)
(*                                                                         *)
(* Three kinds of thread act on a session: the control thread that calls   *)
(* Open/Close/StartRecording/StopRecording/AddSysExBuffer/SendMsg, the     *)
(* header worker threads (HeaderProc) and the driver's callback context    *)
(* (MidiInProc/MidiOutProc).  Every step below is one access to shared     *)
(* state or one driver call of the source; the label in a program counter  *)
(* is the source line the thread is about to execute.                      *)
(***************************************************************************)
EXTENDS Naturals, Sequences, FiniteSets

\* ------------------------------------------------------------------ bounds
MaxHeaders == 2     \* headers (buffer descriptors) ever constructed
MaxWorkers == 2     \* worker threads ever created

\* --------------------------------------------------------------- constants
CLOSED == "CLOSED"
OPENED == "OPENED"
RECORDING == "RECORDING"

\* Thread identities, as the owner of the critical section.
NoThread == <<"none", 0>>
Ctl == <<"ctl", 0>>
Worker(w) == <<"worker", w>>

Hdrs == 1 .. MaxHeaders
Workers == 1 .. MaxWorkers

VARIABLES
    dev,          \* "in": a CMIDIInDevice, "out": a CMIDIOutDevice,
                  \* "pack": the static short-message functions alone
    sm,           \* arguments and results of PackShortMsg / UnpackShortMsg
    evH,          \* the handle in m_Event: "uninit", "valid" or "null"
    m_State,      \* CLOSED, OPENED, RECORDING
    m_Event,      \* auto-reset event: TRUE when signalled
    m_HdrQueue,   \* std::queue of header ids, front first
    csOwner,      \* owner of CHeaderQueue::m_CriticalSection
    hOpen,        \* the handle in m_DevHandle is open in the driver
    leaked,       \* a handle the session gave up is still open in the driver
    nHdr,         \* headers constructed so far
    unprep,       \* header id -> number of unprepare calls (destructions)
    drvPending,   \* headers the driver holds and has not completed
    queued,       \* headers that AddHeader has pushed (history)
    wpc,          \* worker id -> position in HeaderProc
    nSpawn,       \* worker threads created so far
    cbPc,         \* position of the driver callback
    cbHdr,        \* header the running callback is about
    ctlPc,        \* position of the control thread
    op,           \* the public operation the control thread is in
    preState,     \* m_State when that operation was called
    err,          \* exception the operation ended with
    calls,        \* driver and event calls the operation has made
    Header        \* the local Header of AddSysExBuffer / SendMsg

devVars == <<m_State, m_Event, m_HdrQueue, csOwner, hOpen, leaked>>

\* Driver handles this session opened that are still open: the current one
\* and, counted once, those it gave up without the driver closing them.
OpenHandles == (IF hOpen THEN 1 ELSE 0) + (IF leaked THEN 1 ELSE 0)
hdrVars == <<nHdr, unprep, drvPending, queued>>
wrkVars == <<wpc, nSpawn>>
cbVars == <<cbPc, cbHdr>>
ctlVars == <<ctlPc, op, preState, err, calls, Header>>
vars == <<dev, sm, evH, devVars, hdrVars, wrkVars, cbVars, ctlVars>>

\* ------------------------------------------------------- std::queue
\* (variant: push at the front)
QPush_Front(q, h) == <<h>> \o q
QPush(q, h) == Append(q, h)
\* (variant: front() that returns the newest element)
QFront_Back(q) == q[Len(q)]
QFront(q) == Head(q)
QPop(q) == Tail(q)
QEmpty(q) == q = <<>>

QElems(q) == {q[i] : i \in 1 .. Len(q)}

\* ------------------------------------------------------- critical section
\* EnterCriticalSection returns only when no other thread owns the section.
\* (variant: a section that never makes a thread wait)
CanEnter_Unguarded(t) == TRUE
CanEnter(t) == csOwner = NoThread

\* ~CMIDIInHeader / ~CMIDIOutHeader: one unprepare call for header h.
Unprepare(h) == unprep' = [unprep EXCEPT ![h] = IF @ < 2 THEN @ + 1 ELSE @]

\* ------------------------------------------------------- driver handles
\* midiInOpen / midiOutOpen succeeds: m_DevHandle is overwritten with the new
\* handle; the handle it held, if still open, stays open in the driver.
OpenDevice ==
    /\ hOpen' = TRUE
    /\ leaked' = (leaked \/ hOpen)

\* midiOutClose(m_DevHandle) whose result is ignored: a refused close leaves
\* the handle open, and the session no longer counts it as its own.
CloseDevice(ok) ==
    /\ hOpen' = FALSE
    /\ leaked' = (leaked \/ (hOpen /\ ~ok))

\* ------------------------------------------------------- CHeaderQueue
\* RemoveAll's loop condition, evaluated on the queue after a pop.
\* (variant: `if` in place of `while`, one header removed at most)
RemoveAllMore_Once(q) == FALSE
RemoveAllMore(q) == ~QEmpty(q)

\* AddHeader: enter, push, leave.
AddHeader(h) ==
    /\ CanEnter(Ctl)
    /\ m_HdrQueue' = QPush(m_HdrQueue, h)
    /\ queued' = queued \cup {h}
    /\ UNCHANGED csOwner

\* RemoveHeader / RemoveAll up to and including `delete front()`: thread t
\* enters; an empty queue is left alone and the section is left at once.
EnterAndDelete(t) ==
    /\ CanEnter(t)
    /\ IF QEmpty(m_HdrQueue)
       THEN UNCHANGED <<csOwner, unprep>>
       ELSE /\ csOwner' = t
            /\ Unprepare(QFront(m_HdrQueue))
    /\ UNCHANGED m_HdrQueue

\* `pop()` of RemoveHeader, then leave.
PopAndLeave ==
    /\ m_HdrQueue' = QPop(m_HdrQueue)
    /\ csOwner' = NoThread


\* ------------------------------------------------------- control thread
\* ::SetEvent(m_Event): signals the event when the handle is one; fails, with
\* no effect, on the NULL of a failed CreateEvent or on a handle never set.
SetEvent == m_Event' = IF evH = "valid" THEN TRUE ELSE m_Event

Log(fn, ok) == calls' = Append(calls, <<fn, ok>>)

Goto(l) == ctlPc' = l /\ UNCHANGED <<op, preState>>

\* The operation ends normally: control is back at the caller.  The control
\* thread rests at "idle" with the record of the operation it has finished.
Done == Goto("idle") /\ UNCHANGED err

\* The operation ends with exception e, which no frame of the call chain
\* catches.
\* (variant: the exception is caught and dropped inside the operation)
Throw_Swallowed(e) == Goto("idle") /\ UNCHANGED err
Throw(e) == Goto("idle") /\ err' = e

InOps == {"Open", "Close", "AddSysExBuffer", "StartRecording", "StopRecording"}

\* CMIDIInDevice::Close, line 236: whether Close calls StopRecording.
\* (variant: Close without the call of StopRecording)
In_CloseStops_Never == FALSE
In_CloseStops == m_State = RECORDING

\* Open begins with its call of Close.
InEntry(o) ==
    CASE o = "Open" -> IF In_CloseStops THEN "Stop_338" ELSE "Close_242"
      [] o = "Close" -> IF In_CloseStops THEN "Stop_338" ELSE "Close_242"
      [] o = "AddSysExBuffer" -> "Add_267"
      [] o = "StartRecording" -> "Start_300"
      [] o = "StopRecording" -> "Stop_338"

\* The application calls a public method of the input device.
In_Call(o) ==
    /\ dev = "in"
    /\ ctlPc = "idle"
    /\ ctlPc' = InEntry(o)
    /\ op' = o
    /\ preState' = m_State
    /\ err' = "none"
    /\ calls' = <<>>
    /\ Header' = 0
    /\ UNCHANGED <<dev, sm, evH, devVars, hdrVars, wrkVars, cbVars>>

\* --- CMIDIInDevice::Close
In_CloseReturns ==
    CASE op = "Open" -> Goto("Open_213") /\ UNCHANGED err
      [] op = "Construct" ->
            IF evH = "null"
            THEN Throw("EventFailure")
            ELSE Goto("Open_213") /\ UNCHANGED err
      [] OTHER -> Done

\* Open returns: into the constructor at line 186, or to the caller.
In_OpenReturns ==
    IF op = "Construct" THEN Goto("Ctor_186") /\ UNCHANGED err ELSE Done

\* (variant: the result of midiInClose is not looked at)
In_Close_242_Ignored ==
    /\ dev = "in"
    /\ ctlPc = "Close_242"
    /\ IF m_State = OPENED
       THEN \E ok \in BOOLEAN :
              /\ Log("midiInClose", ok)
              /\ CloseDevice(ok)
              /\ m_State' = CLOSED
              /\ In_CloseReturns
       ELSE /\ UNCHANGED <<hOpen, leaked, m_State, calls>>
            /\ In_CloseReturns
    /\ UNCHANGED <<dev, sm, evH, m_Event, m_HdrQueue, csOwner, hdrVars, wrkVars,
                   cbVars, Header>>

In_Close_242 ==
    /\ dev = "in"
    /\ ctlPc = "Close_242"
    /\ IF m_State = OPENED
       THEN \E ok \in BOOLEAN :
              /\ Log("midiInClose", ok)
              /\ IF ok
                 THEN /\ hOpen' = FALSE
                      /\ m_State' = CLOSED
                      /\ In_CloseReturns
                 ELSE /\ UNCHANGED <<hOpen, m_State>>
                      /\ Throw("DriverError")
       ELSE /\ UNCHANGED <<hOpen, m_State, calls>>
            /\ In_CloseReturns
    /\ UNCHANGED <<dev, sm, evH, m_Event, m_HdrQueue, csOwner, leaked, hdrVars, wrkVars,
                   cbVars, Header>>

\* --- CMIDIInDevice::Open (after its call of Close)
In_Open_213 ==
    /\ dev = "in"
    /\ ctlPc = "Open_213"
    /\ \E ok \in BOOLEAN :
         /\ Log("midiInOpen", ok)
         /\ IF ok
            THEN /\ OpenDevice
                 /\ m_State' = OPENED
                 /\ In_OpenReturns
            ELSE /\ UNCHANGED <<hOpen, leaked, m_State>>
                 /\ Throw("DriverError")
    /\ UNCHANGED <<dev, sm, evH, m_Event, m_HdrQueue, csOwner, hdrVars, wrkVars, cbVars,
                   Header>>

\* --- CMIDIInDevice::StartRecording
\* (variant: the result of CreateThread is not looked at)
In_Start_300_Unchecked ==
    /\ dev = "in"
    /\ ctlPc = "Start_300"
    /\ IF m_State = OPENED
       THEN \E ok \in BOOLEAN :
              /\ ok => nSpawn < MaxWorkers
              /\ Log("CreateThread", ok)
              /\ IF ok
                 THEN /\ nSpawn' = nSpawn + 1
                      /\ wpc' = [wpc EXCEPT ![nSpawn + 1] = "w_while"]
                 ELSE UNCHANGED wrkVars
              /\ Goto("Start_313")
              /\ UNCHANGED err
       ELSE /\ UNCHANGED <<wrkVars, calls>>
            /\ Done
    /\ UNCHANGED <<dev, sm, evH, devVars, hdrVars, cbVars, Header>>

In_Start_300 ==
    /\ dev = "in"
    /\ ctlPc = "Start_300"
    /\ IF m_State = OPENED
       THEN \E ok \in BOOLEAN :
              /\ ok => nSpawn < MaxWorkers
              /\ Log("CreateThread", ok)
              /\ IF ok
                 THEN /\ nSpawn' = nSpawn + 1
                      /\ wpc' = [wpc EXCEPT ![nSpawn + 1] = "w_while"]
                      /\ Goto("Start_313")
                      /\ UNCHANGED err
                 ELSE /\ UNCHANGED wrkVars
                      /\ Throw("ThreadFailure")
       ELSE /\ UNCHANGED <<wrkVars, calls>>
            /\ Done
    /\ UNCHANGED <<dev, sm, evH, devVars, hdrVars, cbVars, Header>>

In_Start_313 ==
    /\ dev = "in"
    /\ ctlPc = "Start_313"
    /\ m_State' = RECORDING
    /\ Goto("Start_316")
    /\ UNCHANGED <<dev, sm, evH, m_Event, m_HdrQueue, csOwner, hOpen, leaked, hdrVars,
                   wrkVars, cbVars, err, calls, Header>>

In_Start_316 ==
    /\ dev = "in"
    /\ ctlPc = "Start_316"
    /\ \E ok \in BOOLEAN :
         /\ Log("midiInStart", ok)
         /\ IF ok
            THEN UNCHANGED m_State /\ Done
            ELSE /\ m_State' = OPENED
                 /\ Goto("Start_325")
                 /\ UNCHANGED err
    /\ UNCHANGED <<dev, sm, evH, m_Event, m_HdrQueue, csOwner, hOpen, leaked, hdrVars,
                   wrkVars, cbVars, Header>>

In_Start_325 ==
    /\ dev = "in"
    /\ ctlPc = "Start_325"
    /\ SetEvent
    /\ Log("SetEvent", TRUE)
    /\ Throw("DriverError")
    /\ UNCHANGED <<dev, sm, evH, m_State, m_HdrQueue, csOwner, hOpen, leaked, hdrVars,
                   wrkVars, cbVars, Header>>

\* --- CMIDIInDevice::StopRecording
In_StopReturns ==
    IF op = "StopRecording" THEN Done ELSE Goto("Close_242") /\ UNCHANGED err

\* (variant: StopRecording without the test of m_State)
In_Stop_338_Untested ==
    /\ dev = "in"
    /\ ctlPc = "Stop_338"
    /\ m_State' = OPENED
    /\ Goto("Stop_344")
    /\ UNCHANGED err
    /\ UNCHANGED <<dev, sm, evH, m_Event, m_HdrQueue, csOwner, hOpen, leaked, hdrVars,
                   wrkVars, cbVars, calls, Header>>

In_Stop_338 ==
    /\ dev = "in"
    /\ ctlPc = "Stop_338"
    /\ IF m_State = RECORDING
       THEN /\ m_State' = OPENED
            /\ Goto("Stop_344")
            /\ UNCHANGED err
       ELSE /\ UNCHANGED m_State
            /\ In_StopReturns
    /\ UNCHANGED <<dev, sm, evH, m_Event, m_HdrQueue, csOwner, hOpen, leaked, hdrVars,
                   wrkVars, cbVars, calls, Header>>

\* ::SetEvent(m_Event), then ::midiInReset(m_DevHandle).  The reset marks
\* every pending buffer done; the driver returns each by a callback
\* (In_MidiInProc_Long), which it may run at any later time.
\* (variant: StopRecording resets the driver without setting the event)
In_Stop_344_NoWake ==
    /\ dev = "in"
    /\ ctlPc = "Stop_344"
    /\ Log("midiInReset", TRUE)
    /\ Goto("Stop_350")
    /\ UNCHANGED <<dev, sm, evH, m_State, m_Event, m_HdrQueue, csOwner, hOpen, leaked,
                   hdrVars, wrkVars, cbVars, err, Header>>

In_Stop_344 ==
    /\ dev = "in"
    /\ ctlPc = "Stop_344"
    /\ SetEvent
    /\ calls' = calls \o <<<<"SetEvent", TRUE>>, <<"midiInReset", TRUE>>>>
    /\ Goto("Stop_350")
    /\ UNCHANGED <<dev, sm, evH, m_State, m_HdrQueue, csOwner, hOpen, leaked, hdrVars,
                   wrkVars, cbVars, err, Header>>

\* m_HdrQueue.RemoveAll(): enter, test the queue, delete the front.
In_Stop_350 ==
    /\ dev = "in"
    /\ ctlPc = "Stop_350"
    /\ EnterAndDelete(Ctl)
    /\ Log("RemoveAll", TRUE)
    /\ IF QEmpty(m_HdrQueue)
       THEN In_StopReturns
       ELSE Goto("RemoveAll_137") /\ UNCHANGED err
    /\ UNCHANGED <<dev, sm, evH, m_State, m_Event, hOpen, leaked, nHdr, drvPending, queued,
                   wrkVars, cbVars, Header>>

\* RemoveAll: pop, then the loop test; leave when the queue is empty.
In_RemoveAll_137 ==
    /\ dev = "in"
    /\ ctlPc = "RemoveAll_137"
    /\ m_HdrQueue' = QPop(m_HdrQueue)
    /\ IF RemoveAllMore(m_HdrQueue')
       THEN /\ Goto("RemoveAll_136")
            /\ UNCHANGED <<csOwner, err>>
       ELSE /\ csOwner' = NoThread
            /\ In_StopReturns
    /\ UNCHANGED <<dev, sm, evH, m_State, m_Event, hOpen, leaked, hdrVars, wrkVars,
                   cbVars, calls, Header>>

\* RemoveAll: delete the front of the next round.
In_RemoveAll_136 ==
    /\ dev = "in"
    /\ ctlPc = "RemoveAll_136"
    /\ Unprepare(QFront(m_HdrQueue))
    /\ Goto("RemoveAll_137")
    /\ UNCHANGED <<dev, sm, evH, devVars, nHdr, drvPending, queued, wrkVars, cbVars, err, calls,
                   Header>>

\* --- CMIDIInDevice::AddSysExBuffer
\* Whether the handlers `catch(const CMIDIInDevice &)` of AddSysExBuffer
\* catch the CMIDIInException that the header throws: CMIDIInException derives
\* from std::exception only.
In_HandlerCatches == FALSE

\* new CMIDIInHeader (allocation, then midiInPrepareHeader in the
\* constructor), then Header->AddSysExBuffer() (midiInAddBuffer).  A rejected
\* midiInAddBuffer throws through the handler at line 288.
In_Add_267 ==
    /\ dev = "in"
    /\ ctlPc = "Add_267"
    /\ \E r \in {"ok", "bad_alloc", "prepare_rejected", "add_rejected"} :
         /\ r \in {"ok", "add_rejected"} => nHdr < MaxHeaders
         /\ CASE r = "ok" ->
                   /\ nHdr' = nHdr + 1
                   /\ Header' = nHdr + 1
                   /\ calls' = calls \o <<<<"midiInPrepareHeader", TRUE>>,
                                          <<"midiInAddBuffer", TRUE>>>>
                   /\ drvPending' = Append(drvPending, nHdr + 1)
                   /\ Goto("Add_284")
                   /\ UNCHANGED <<unprep, err>>
              [] r = "bad_alloc" ->
                   /\ UNCHANGED <<nHdr, Header, calls, drvPending, unprep>>
                   /\ Throw("MemFailure")
              [] r = "prepare_rejected" ->
                   /\ UNCHANGED <<nHdr, Header, drvPending, unprep>>
                   /\ Log("midiInPrepareHeader", FALSE)
                   /\ Throw("DriverError")
              [] r = "add_rejected" ->
                   /\ nHdr' = nHdr + 1
                   /\ Header' = nHdr + 1
                   /\ calls' = calls \o <<<<"midiInPrepareHeader", TRUE>>,
                                          <<"midiInAddBuffer", FALSE>>>>
                   /\ IF In_HandlerCatches
                      THEN Unprepare(nHdr + 1)
                      ELSE UNCHANGED unprep
                   /\ UNCHANGED drvPending
                   /\ Throw("DriverError")
    /\ UNCHANGED <<dev, sm, evH, devVars, queued, wrkVars, cbVars>>

In_Add_284 ==
    /\ dev = "in"
    /\ ctlPc = "Add_284"
    /\ AddHeader(Header)
    /\ Done
    /\ UNCHANGED <<dev, sm, evH, m_State, m_Event, hOpen, leaked, nHdr, unprep,
                   drvPending, wrkVars, cbVars, calls, Header>>


\* ------------------------------------------------------- HeaderProc
SetPc(w, l) == wpc' = [wpc EXCEPT ![w] = l]

\* `while(Device->m_State == run)`: the thread function returns when it is
\* false.
HeaderProc_While(w, run) ==
    /\ wpc[w] = "w_while"
    /\ SetPc(w, IF m_State = run THEN "w_wait" ELSE "done")
    /\ UNCHANGED <<dev, sm, evH, devVars, hdrVars, nSpawn, cbVars, ctlVars>>

\* WaitForSingleObject on the auto-reset event: returns when the event is
\* signalled and resets it.  On a handle that is no event (the NULL of a
\* failed CreateEvent, or m_Event read before the constructor has set it) the
\* wait fails and returns at once.
HeaderProc_Wait(w) ==
    /\ wpc[w] = "w_wait"
    /\ IF evH = "valid"
       THEN m_Event /\ m_Event' = FALSE
       ELSE UNCHANGED m_Event
    /\ SetPc(w, "w_if")
    /\ UNCHANGED <<dev, sm, evH, m_State, m_HdrQueue, csOwner, hOpen, leaked, hdrVars,
                   nSpawn, cbVars, ctlVars>>

\* `if(Device->m_State == run)` after the wait.
HeaderProc_If(w, run) ==
    /\ wpc[w] = "w_if"
    /\ SetPc(w, IF m_State = run THEN "w_remove" ELSE "w_while")
    /\ UNCHANGED <<dev, sm, evH, devVars, hdrVars, nSpawn, cbVars, ctlVars>>

\* m_HdrQueue.RemoveHeader(): enter, test the queue, delete the front.
HeaderProc_Remove(w) ==
    /\ wpc[w] = "w_remove"
    /\ EnterAndDelete(Worker(w))
    /\ SetPc(w, IF QEmpty(m_HdrQueue) THEN "w_while" ELSE "w_pop")
    /\ UNCHANGED <<dev, sm, evH, m_State, m_Event, hOpen, leaked, nHdr, drvPending, queued,
                   nSpawn, cbVars, ctlVars>>

\* RemoveHeader: pop and leave.
HeaderProc_Pop(w) ==
    /\ wpc[w] = "w_pop"
    /\ PopAndLeave
    /\ SetPc(w, "w_while")
    /\ UNCHANGED <<dev, sm, evH, m_State, m_Event, hOpen, leaked, hdrVars, nSpawn,
                   cbVars, ctlVars>>

In_HeaderProc_497(w) == dev = "in" /\ HeaderProc_While(w, RECORDING)
In_HeaderProc_499(w) == dev = "in" /\ HeaderProc_Wait(w)
In_HeaderProc_502(w) == dev = "in" /\ HeaderProc_If(w, RECORDING)
In_HeaderProc_505(w) == dev = "in" /\ HeaderProc_Remove(w)
In_RemoveHeader_122(w) == dev = "in" /\ HeaderProc_Pop(w)

\* ------------------------------------------------------- MidiInProc
\* MIM_DATA / MIM_ERROR: the receiver is called, nothing else.
In_MidiInProc_Short(msg) ==
    /\ dev = "in"
    /\ cbPc = "idle"
    /\ hOpen
    /\ UNCHANGED vars

\* (variant: MIM_LONGDATA / MIM_LONGERROR handled without the test of m_State)
In_MidiInProc_Long_Untested(msg) ==
    /\ dev = "in"
    /\ cbPc = "idle"
    /\ drvPending # <<>>
    /\ drvPending' = Tail(drvPending)
    /\ cbPc' = "cb_dispatch"
    /\ cbHdr' = Head(drvPending)
    /\ UNCHANGED <<dev, sm, evH, devVars, nHdr, unprep, queued, wrkVars, ctlVars>>

\* MIM_LONGDATA / MIM_LONGERROR for the oldest buffer the driver holds: the
\* test of m_State and, when recording, the call of the receiver.
In_MidiInProc_Long(msg) ==
    /\ dev = "in"
    /\ cbPc = "idle"
    /\ drvPending # <<>>
    /\ drvPending' = Tail(drvPending)
    /\ IF m_State = RECORDING
       THEN /\ cbPc' = "cb_dispatch"
            /\ cbHdr' = Head(drvPending)
       ELSE UNCHANGED cbVars
    /\ UNCHANGED <<dev, sm, evH, devVars, nHdr, unprep, queued, wrkVars, ctlVars>>

\* (variant: the callback removes the finished header itself)
In_MidiInProc_Signal_Removes ==
    /\ dev = "in"
    /\ cbPc = "cb_dispatch"
    /\ csOwner = NoThread
    /\ IF QEmpty(m_HdrQueue)
       THEN UNCHANGED <<m_HdrQueue, unprep>>
       ELSE Unprepare(QFront(m_HdrQueue)) /\ m_HdrQueue' = QPop(m_HdrQueue)
    /\ cbPc' = "idle"
    /\ cbHdr' = 0
    /\ UNCHANGED <<dev, sm, evH, m_State, m_Event, csOwner, hOpen, leaked, nHdr,
                   drvPending, queued, wrkVars, ctlVars>>

\* The receiver's ReceiveMsg / OnError on the buffer returns, and then
\* ::SetEvent(Device->m_Event).
In_MidiInProc_Signal ==
    /\ dev = "in"
    /\ cbPc = "cb_dispatch"
    /\ SetEvent
    /\ cbPc' = "idle"
    /\ cbHdr' = 0
    /\ UNCHANGED <<dev, sm, evH, m_State, m_HdrQueue, csOwner, hOpen, leaked, hdrVars,
                   wrkVars, ctlVars>>

\* ======================================================= CMIDIOutDevice
OutOps == {"Open", "Close", "SendMsg", "SendShortMsg"}

OutEntry(o) ==
    CASE o = "Open" -> "OClose_240"
      [] o = "Close" -> "OClose_240"
      [] o = "SendMsg" -> "OSend_275"
      [] o = "SendShortMsg" -> "OSend_260"

\* The application calls a public method of the output device.
Out_Call(o) ==
    /\ dev = "out"
    /\ ctlPc = "idle"
    /\ ctlPc' = OutEntry(o)
    /\ op' = o
    /\ preState' = m_State
    /\ err' = "none"
    /\ calls' = <<>>
    /\ Header' = 0
    /\ UNCHANGED <<dev, sm, evH, devVars, hdrVars, wrkVars, cbVars>>

\* --- CMIDIOutDevice::Close
Out_CloseReturns ==
    CASE op = "Open" -> Goto("OOpen_211") /\ UNCHANGED err
      [] op = "Construct" ->
            IF evH = "null"
            THEN Throw("EventFailure")
            ELSE Goto("OOpen_211") /\ UNCHANGED err
      [] OTHER -> Done

\* Open returns: into the constructor at line 181, or to the caller.
Out_OpenReturns ==
    IF op = "Construct" THEN Goto("OCtor_181") /\ UNCHANGED err ELSE Done

Out_Close_240 ==
    /\ dev = "out"
    /\ ctlPc = "OClose_240"
    /\ IF m_State = OPENED
       THEN /\ m_State' = CLOSED
            /\ Goto("OClose_246")
            /\ UNCHANGED err
       ELSE /\ UNCHANGED m_State
            /\ Out_CloseReturns
    /\ UNCHANGED <<dev, sm, evH, m_Event, m_HdrQueue, csOwner, hOpen, leaked, hdrVars,
                   wrkVars, cbVars, calls, Header>>

Out_Close_246 ==
    /\ dev = "out"
    /\ ctlPc = "OClose_246"
    /\ SetEvent
    /\ Log("SetEvent", TRUE)
    /\ Goto("OClose_249")
    /\ UNCHANGED <<dev, sm, evH, m_State, m_HdrQueue, csOwner, hOpen, leaked, hdrVars,
                   wrkVars, cbVars, err, Header>>

\* m_HdrQueue.RemoveAll(): enter, test the queue, delete the front.
Out_Close_249 ==
    /\ dev = "out"
    /\ ctlPc = "OClose_249"
    /\ EnterAndDelete(Ctl)
    /\ Log("RemoveAll", TRUE)
    /\ Goto(IF QEmpty(m_HdrQueue) THEN "OClose_252" ELSE "ORemoveAll_134")
    /\ UNCHANGED <<dev, sm, evH, m_State, m_Event, hOpen, leaked, nHdr, drvPending, queued,
                   wrkVars, cbVars, err, Header>>

Out_RemoveAll_134 ==
    /\ dev = "out"
    /\ ctlPc = "ORemoveAll_134"
    /\ m_HdrQueue' = QPop(m_HdrQueue)
    /\ IF RemoveAllMore(m_HdrQueue')
       THEN /\ Goto("ORemoveAll_133")
            /\ UNCHANGED csOwner
       ELSE /\ csOwner' = NoThread
            /\ Goto("OClose_252")
    /\ UNCHANGED <<dev, sm, evH, m_State, m_Event, hOpen, leaked, hdrVars, wrkVars,
                   cbVars, err, calls, Header>>

Out_RemoveAll_133 ==
    /\ dev = "out"
    /\ ctlPc = "ORemoveAll_133"
    /\ Unprepare(QFront(m_HdrQueue))
    /\ Goto("ORemoveAll_134")
    /\ UNCHANGED <<dev, sm, evH, devVars, nHdr, drvPending, queued, wrkVars, cbVars, err, calls,
                   Header>>

\* ::midiOutClose(m_DevHandle): the result is not looked at.  A close the
\* driver refuses leaves the handle open in the driver.
Out_Close_252 ==
    /\ dev = "out"
    /\ ctlPc = "OClose_252"
    /\ \E ok \in BOOLEAN :
         /\ Log("midiOutClose", ok)
         /\ CloseDevice(ok)
    /\ Out_CloseReturns
    /\ UNCHANGED <<dev, sm, evH, m_State, m_Event, m_HdrQueue, csOwner, hdrVars,
                   wrkVars, cbVars, Header>>

\* --- CMIDIOutDevice::Open (after its call of Close)
Out_Open_211 ==
    /\ dev = "out"
    /\ ctlPc = "OOpen_211"
    /\ \E ok \in BOOLEAN :
         /\ ok => nSpawn < MaxWorkers
         /\ Log("CreateThread", ok)
         /\ IF ok
            THEN /\ nSpawn' = nSpawn + 1
                 /\ wpc' = [wpc EXCEPT ![nSpawn + 1] = "w_while"]
                 /\ Goto("OOpen_217")
                 /\ UNCHANGED err
            ELSE /\ UNCHANGED wrkVars
                 /\ Throw("ThreadFailure")
    /\ UNCHANGED <<dev, sm, evH, devVars, hdrVars, cbVars, Header>>

Out_Open_217 ==
    /\ dev = "out"
    /\ ctlPc = "OOpen_217"
    /\ \E ok \in BOOLEAN :
         /\ Log("midiOutOpen", ok)
         /\ IF ok
            THEN /\ OpenDevice
                 /\ m_State' = OPENED
                 /\ Out_OpenReturns
            ELSE /\ UNCHANGED <<hOpen, leaked, m_State>>
                 /\ Goto("OOpen_230")
                 /\ UNCHANGED err
    /\ UNCHANGED <<dev, sm, evH, m_Event, m_HdrQueue, csOwner, hdrVars, wrkVars, cbVars,
                   Header>>

Out_Open_230 ==
    /\ dev = "out"
    /\ ctlPc = "OOpen_230"
    /\ SetEvent
    /\ Log("SetEvent", TRUE)
    /\ Throw("DriverError")
    /\ UNCHANGED <<dev, sm, evH, m_State, m_HdrQueue, csOwner, hOpen, leaked, hdrVars,
                   wrkVars, cbVars, Header>>

\* --- CMIDIOutDevice::SendMsg(DWORD)
Out_Send_260 ==
    /\ dev = "out"
    /\ ctlPc = "OSend_260"
    /\ IF m_State = OPENED
       THEN \E ok \in BOOLEAN :
              /\ Log("midiOutShortMsg", ok)
              /\ IF ok THEN Done ELSE Throw("DriverError")
       ELSE UNCHANGED calls /\ Done
    /\ UNCHANGED <<dev, sm, evH, devVars, hdrVars, wrkVars, cbVars, Header>>

\* --- CMIDIOutDevice::SendMsg(LPSTR, DWORD)
\* Whether the handler at line 305 throws the exception on after deleting
\* the header: its body is `delete Header;` alone.
Out_HandlerRethrows == FALSE

\* new CMIDIOutHeader (allocation, then midiOutPrepareHeader in the
\* constructor), then Header->SendMsg() (midiOutLongMsg).  On a rejected
\* midiOutLongMsg the handler at line 305 deletes the header.
Out_Send_275 ==
    /\ dev = "out"
    /\ ctlPc = "OSend_275"
    /\ IF m_State = OPENED
       THEN \E r \in {"ok", "bad_alloc", "prepare_rejected", "send_rejected"} :
              /\ r \in {"ok", "send_rejected"} => nHdr < MaxHeaders
              /\ CASE r = "ok" ->
                        /\ nHdr' = nHdr + 1
                        /\ Header' = nHdr + 1
                        /\ calls' = calls \o <<<<"midiOutPrepareHeader", TRUE>>,
                                               <<"midiOutLongMsg", TRUE>>>>
                        /\ drvPending' = Append(drvPending, nHdr + 1)
                        /\ Goto("OSend_301")
                        /\ UNCHANGED <<unprep, err>>
                   [] r = "bad_alloc" ->
                        /\ UNCHANGED <<nHdr, Header, calls, drvPending, unprep>>
                        /\ Throw("MemFailure")
                   [] r = "prepare_rejected" ->
                        /\ UNCHANGED <<nHdr, Header, drvPending, unprep>>
                        /\ Log("midiOutPrepareHeader", FALSE)
                        /\ Throw("DriverError")
                   [] r = "send_rejected" ->
                        /\ nHdr' = nHdr + 1
                        /\ Header' = nHdr + 1
                        /\ calls' = calls \o <<<<"midiOutPrepareHeader", TRUE>>,
                                               <<"midiOutLongMsg", FALSE>>>>
                        /\ Unprepare(nHdr + 1)
                        /\ UNCHANGED drvPending
                        /\ IF Out_HandlerRethrows
                           THEN Throw("DriverError")
                           ELSE Done
       ELSE /\ UNCHANGED <<nHdr, unprep, drvPending, Header, calls>>
            /\ Done
    /\ UNCHANGED <<dev, sm, evH, devVars, queued, wrkVars, cbVars>>

Out_Send_301 ==
    /\ dev = "out"
    /\ ctlPc = "OSend_301"
    /\ AddHeader(Header)
    /\ Done
    /\ UNCHANGED <<dev, sm, evH, m_State, m_Event, hOpen, leaked, nHdr, unprep,
                   drvPending, wrkVars, cbVars, calls, Header>>

\* --- CMIDIOutDevice::HeaderProc
Out_HeaderProc_398(w) == dev = "out" /\ HeaderProc_While(w, OPENED)
Out_HeaderProc_400(w) == dev = "out" /\ HeaderProc_Wait(w)
Out_HeaderProc_403(w) == dev = "out" /\ HeaderProc_If(w, OPENED)
Out_HeaderProc_406(w) == dev = "out" /\ HeaderProc_Remove(w)
Out_RemoveHeader_119(w) == dev = "out" /\ HeaderProc_Pop(w)

\* --- CMIDIOutDevice::MidiOutProc
\* MOM_DONE for the oldest buffer the driver holds: the event is set.
Out_MidiOutProc_Done ==
    /\ dev = "out"
    /\ drvPending # <<>>
    /\ drvPending' = Tail(drvPending)
    /\ SetEvent
    /\ UNCHANGED <<dev, sm, evH, m_State, m_HdrQueue, csOwner, hOpen, leaked, nHdr, unprep, queued,
                   wrkVars, cbVars, ctlVars>>

\* MOM_OPEN / MOM_CLOSE: nothing is done.
Out_MidiOutProc_Other ==
    /\ dev = "out"
    /\ hOpen
    /\ UNCHANGED vars

\* ------------------------------------------------------- specification
\* A session constructed in the closed state, its event created unsignalled.
InitSession ==
    /\ m_State = CLOSED
    /\ m_Event = FALSE
    /\ m_HdrQueue = <<>>
    /\ csOwner = NoThread
    /\ hOpen = FALSE
    /\ leaked = FALSE
    /\ nHdr = 0
    /\ unprep = [h \in Hdrs |-> 0]
    /\ drvPending = <<>>
    /\ queued = {}
    /\ wpc = [w \in Workers |-> "none"]
    /\ nSpawn = 0
    /\ cbPc = "idle"
    /\ cbHdr = 0
    /\ ctlPc = "idle"
    /\ op = "none"
    /\ preState = "none"
    /\ err = "none"
    /\ calls = <<>>
    /\ Header = 0

InCtlStep ==
    \/ In_Close_242
    \/ In_Open_213
    \/ In_Start_300
    \/ In_Start_313
    \/ In_Start_316
    \/ In_Start_325
    \/ In_Stop_338
    \/ In_Stop_344
    \/ In_Stop_350
    \/ In_RemoveAll_137
    \/ In_RemoveAll_136
    \/ In_Add_267
    \/ In_Add_284

InWorkerStep(w) ==
    \/ In_HeaderProc_497(w)
    \/ In_HeaderProc_499(w)
    \/ In_HeaderProc_502(w)
    \/ In_HeaderProc_505(w)
    \/ In_RemoveHeader_122(w)

InCallbackStep ==
    \/ \E msg \in {"MIM_DATA", "MIM_ERROR"} : In_MidiInProc_Short(msg)
    \/ \E msg \in {"MIM_LONGDATA", "MIM_LONGERROR"} : In_MidiInProc_Long(msg)
    \/ In_MidiInProc_Signal

OutCtlStep ==
    \/ Out_Close_240
    \/ Out_Close_246
    \/ Out_Close_249
    \/ Out_RemoveAll_134
    \/ Out_RemoveAll_133
    \/ Out_Close_252
    \/ Out_Open_211
    \/ Out_Open_217
    \/ Out_Open_230
    \/ Out_Send_260
    \/ Out_Send_275
    \/ Out_Send_301

OutWorkerStep(w) ==
    \/ Out_HeaderProc_398(w)
    \/ Out_HeaderProc_400(w)
    \/ Out_HeaderProc_403(w)
    \/ Out_HeaderProc_406(w)
    \/ Out_RemoveHeader_119(w)

OutCallbackStep ==
    \/ Out_MidiOutProc_Done
    \/ Out_MidiOutProc_Other

NextIn ==
    \/ \E o \in InOps : In_Call(o)
    \/ InCtlStep
    \/ \E w \in Workers : InWorkerStep(w)
    \/ InCallbackStep

NextOut ==
    \/ \E o \in OutOps : Out_Call(o)
    \/ OutCtlStep
    \/ \E w \in Workers : OutWorkerStep(w)
    \/ OutCallbackStep

Next == NextIn \/ NextOut

\* No short message is being packed.
NoMsg == [pc |-> "none"]

\* The constructor has created the event.
InitConstructed == InitSession /\ evH = "valid" /\ sm = NoMsg

Init == dev \in {"in", "out"} /\ InitConstructed
InitIn == dev = "in" /\ InitConstructed
InitOut == dev = "out" /\ InitConstructed

\* Both devices, one of them per behaviour.
Spec == Init /\ [][Next]_vars

\* The input device alone, and the output device alone.
SpecIn == InitIn /\ [][NextIn]_vars
SpecOut == InitOut /\ [][NextOut]_vars

\* Scheduling: a thread that can take a step of the code it is in takes it.
\* The application need not call again, and the driver need not call back.
FairIn ==
    /\ WF_vars(InCtlStep)
    /\ \A w \in Workers : WF_vars(InWorkerStep(w))
    /\ WF_vars(In_MidiInProc_Signal)

FairOut ==
    /\ WF_vars(OutCtlStep)
    /\ \A w \in Workers : WF_vars(OutWorkerStep(w))

FairSpecIn == SpecIn /\ FairIn
FairSpecOut == SpecOut /\ FairOut

\* ======================================================= constructors
\* CMIDIInDevice(UINT, CMIDIReceiver &) and CMIDIOutDevice(UINT): the
\* constructors "in an opened state".  They call Open(DeviceId) first and
\* CreateEvent() after it; when CreateEvent fails they call Close() and throw
\* the event failure.
In_Construct ==
    /\ dev = "in"
    /\ ctlPc = "idle"
    /\ op = "none"
    /\ evH = "uninit"
    /\ ctlPc' = InEntry("Open")
    /\ op' = "Construct"
    /\ preState' = m_State
    /\ UNCHANGED <<dev, sm, evH, devVars, hdrVars, wrkVars, cbVars, err, calls, Header>>

In_Ctor_186 ==
    /\ dev = "in"
    /\ ctlPc = "Ctor_186"
    /\ \E ok \in BOOLEAN :
         /\ Log("CreateEvent", ok)
         /\ IF ok
            THEN /\ evH' = "valid"
                 /\ m_Event' = FALSE
                 /\ Done
            ELSE /\ evH' = "null"
                 /\ UNCHANGED m_Event
                 /\ Goto(InEntry("Close"))
                 /\ UNCHANGED err
    /\ UNCHANGED <<dev, sm, m_State, m_HdrQueue, csOwner, hOpen, leaked, hdrVars,
                   wrkVars, cbVars, Header>>

Out_Construct ==
    /\ dev = "out"
    /\ ctlPc = "idle"
    /\ op = "none"
    /\ evH = "uninit"
    /\ ctlPc' = OutEntry("Open")
    /\ op' = "Construct"
    /\ preState' = m_State
    /\ UNCHANGED <<dev, sm, evH, devVars, hdrVars, wrkVars, cbVars, err, calls, Header>>

Out_Ctor_181 ==
    /\ dev = "out"
    /\ ctlPc = "OCtor_181"
    /\ \E ok \in BOOLEAN :
         /\ Log("CreateEvent", ok)
         /\ IF ok
            THEN /\ evH' = "valid"
                 /\ m_Event' = FALSE
                 /\ Done
            ELSE /\ evH' = "null"
                 /\ UNCHANGED m_Event
                 /\ Goto(OutEntry("Close"))
                 /\ UNCHANGED err
    /\ UNCHANGED <<dev, sm, m_State, m_HdrQueue, csOwner, hOpen, leaked, hdrVars,
                   wrkVars, cbVars, Header>>

\* A session from its construction in the opened state on: the constructor,
\* and, once it has succeeded, the calls of the application; the workers and
\* the driver's callbacks run throughout.
NextCtor ==
    \/ In_Construct
    \/ In_Ctor_186
    \/ \E o \in InOps : evH = "valid" /\ In_Call(o)
    \/ InCtlStep
    \/ \E w \in Workers : InWorkerStep(w)
    \/ InCallbackStep
    \/ Out_Construct
    \/ Out_Ctor_181
    \/ \E o \in OutOps : evH = "valid" /\ Out_Call(o)
    \/ OutCtlStep
    \/ \E w \in Workers : OutWorkerStep(w)
    \/ OutCallbackStep

\* The members as the constructor's initialiser list leaves them: m_State is
\* CLOSED, m_Event is not yet assigned.
InitCtor ==
    /\ dev \in {"in", "out"}
    /\ InitSession
    /\ evH = "uninit"
    /\ sm = NoMsg

SpecCtor == InitCtor /\ [][NextCtor]_vars

FairCtor ==
    /\ WF_vars(InCtlStep \/ In_Ctor_186)
    /\ WF_vars(OutCtlStep \/ Out_Ctor_181)
    /\ \A w \in Workers : WF_vars(InWorkerStep(w)) /\ WF_vars(OutWorkerStep(w))
    /\ WF_vars(In_MidiInProc_Signal)

FairSpecCtor == SpecCtor /\ FairCtor

\* ======================================================= CHeaderQueue alone
\* The header queue with any threads calling its four operations, each
\* operation step by step: EnterCriticalSection, the statements inside, and
\* LeaveCriticalSection.  Thread t is at wpc[t]; "none" is outside the queue.
QueueOps == {"AddHeader", "RemoveHeader", "RemoveAll", "IsEmpty"}

\* The EnterCriticalSection of each operation and the statement after it.
QueueEntry(o) ==
    CASE o = "AddHeader" -> "add_106"
      [] o = "RemoveHeader" -> "rh_117"
      [] o = "RemoveAll" -> "ra_132"
      [] o = "IsEmpty" -> "ie_149"

QueueEntered(l) ==
    CASE l = "add_106" -> "add_108"
      [] l = "rh_117" -> "rh_119"
      [] l = "ra_132" -> "ra_134"
      [] l = "ie_149" -> "ie_151"

\* Positions between EnterCriticalSection and LeaveCriticalSection.
QueueInside ==
    {"add_108", "add_110", "rh_119", "rh_122", "rh_125", "ra_134", "ra_137",
     "ra_140", "ie_151", "ie_153"}

\* Positions at a LeaveCriticalSection.
QueueLeaving == {"add_110", "rh_125", "ra_140", "ie_153"}

\* (variant: a return without LeaveCriticalSection)
Leave_Forgotten == UNCHANGED csOwner
\* ::LeaveCriticalSection(&m_CriticalSection)
Leave == csOwner' = NoThread

queueFrame ==
    <<dev, sm, evH, m_State, m_Event, hOpen, leaked, drvPending, nSpawn, cbVars,
      ctlVars>>

\* A thread calls an operation; AddHeader is called with a new header.
Q_Call(t, o) ==
    /\ dev = "queue"
    /\ wpc[t] = "none"
    /\ (o = "AddHeader") => (nHdr < MaxHeaders)
    /\ SetPc(t, QueueEntry(o))
    /\ UNCHANGED <<csOwner, m_HdrQueue, hdrVars, queueFrame>>

Q_Enter(t) ==
    /\ dev = "queue"
    /\ wpc[t] \in {QueueEntry(o) : o \in QueueOps}
    /\ CanEnter(Worker(t))
    /\ csOwner' = Worker(t)
    /\ SetPc(t, QueueEntered(wpc[t]))
    /\ UNCHANGED <<m_HdrQueue, hdrVars, queueFrame>>

\* AddHeader: m_HdrQueue.push(Header)
Q_AddHeader_108(t) ==
    /\ dev = "queue"
    /\ wpc[t] = "add_108"
    /\ nHdr' = nHdr + 1
    /\ m_HdrQueue' = QPush(m_HdrQueue, nHdr + 1)
    /\ queued' = queued \cup {nHdr + 1}
    /\ SetPc(t, "add_110")
    /\ UNCHANGED <<csOwner, unprep, drvPending, queueFrame>>

\* RemoveHeader: if(!m_HdrQueue.empty()) delete m_HdrQueue.front()
Q_RemoveHeader_119(t) ==
    /\ dev = "queue"
    /\ wpc[t] = "rh_119"
    /\ IF QEmpty(m_HdrQueue)
       THEN SetPc(t, "rh_125") /\ UNCHANGED unprep
       ELSE SetPc(t, "rh_122") /\ Unprepare(QFront(m_HdrQueue))
    /\ UNCHANGED <<csOwner, m_HdrQueue, nHdr, drvPending, queued, queueFrame>>

\* RemoveHeader: m_HdrQueue.pop()
Q_RemoveHeader_122(t) ==
    /\ dev = "queue"
    /\ wpc[t] = "rh_122"
    /\ m_HdrQueue' = QPop(m_HdrQueue)
    /\ SetPc(t, "rh_125")
    /\ UNCHANGED <<csOwner, hdrVars, queueFrame>>

\* RemoveAll: while(!m_HdrQueue.empty()) delete m_HdrQueue.front()
Q_RemoveAll_134(t) ==
    /\ dev = "queue"
    /\ wpc[t] = "ra_134"
    /\ IF QEmpty(m_HdrQueue)
       THEN SetPc(t, "ra_140") /\ UNCHANGED unprep
       ELSE SetPc(t, "ra_137") /\ Unprepare(QFront(m_HdrQueue))
    /\ UNCHANGED <<csOwner, m_HdrQueue, nHdr, drvPending, queued, queueFrame>>

\* RemoveAll: m_HdrQueue.pop(), and back to the test of the loop
Q_RemoveAll_137(t) ==
    /\ dev = "queue"
    /\ wpc[t] = "ra_137"
    /\ m_HdrQueue' = QPop(m_HdrQueue)
    /\ SetPc(t, "ra_134")
    /\ UNCHANGED <<csOwner, hdrVars, queueFrame>>

\* IsEmpty: Result = m_HdrQueue.empty()
Q_IsEmpty_151(t) ==
    /\ dev = "queue"
    /\ wpc[t] = "ie_151"
    /\ SetPc(t, "ie_153")
    /\ UNCHANGED <<csOwner, m_HdrQueue, hdrVars, queueFrame>>

Q_Leave(t) ==
    /\ dev = "queue"
    /\ wpc[t] \in QueueLeaving
    /\ Leave
    /\ SetPc(t, "none")
    /\ UNCHANGED <<m_HdrQueue, hdrVars, queueFrame>>

\* The steps of a thread between its EnterCriticalSection and its return.
Q_Inside(t) ==
    \/ Q_AddHeader_108(t)
    \/ Q_RemoveHeader_119(t)
    \/ Q_RemoveHeader_122(t)
    \/ Q_RemoveAll_134(t)
    \/ Q_RemoveAll_137(t)
    \/ Q_IsEmpty_151(t)
    \/ Q_Leave(t)

NextQueue ==
    \E t \in Workers :
        \/ \E o \in QueueOps : Q_Call(t, o)
        \/ Q_Enter(t)
        \/ Q_Inside(t)

InitQueue == dev = "queue" /\ InitConstructed

SpecQueue == InitQueue /\ [][NextQueue]_vars

\* A thread inside the section runs on; a thread at EnterCriticalSection
\* gets the section if it is free again and again.
FairQueue ==
    \A t \in Workers : WF_vars(Q_Inside(t)) /\ SF_vars(Q_Enter(t))

FairSpecQueue == SpecQueue /\ FairQueue

\* ======================================================= short messages
\* midi::SHORT_MSG_SHIFT and midi::SHORT_MSG_MASK (midi.h): a byte's width,
\* and the channel bits of a status byte.
SHORT_MSG_SHIFT == 8
SHORT_MSG_MASK == 15

\* Bitwise operators of C++ on non-negative values.
RECURSIVE BitAnd(_, _)
BitAnd(a, b) ==
    IF a = 0 \/ b = 0
    THEN 0
    ELSE (a % 2) * (b % 2) + 2 * BitAnd(a \div 2, b \div 2)

RECURSIVE BitOr(_, _)
BitOr(a, b) ==
    IF a = 0 THEN b
    ELSE IF b = 0 THEN a
    ELSE (IF a % 2 = 1 \/ b % 2 = 1 THEN 1 ELSE 0)
             + 2 * BitOr(a \div 2, b \div 2)

\* `x << n` and `x >> n`.  The operands of << are bytes promoted to int and
\* n is 16 at most, so no bit leaves the 32 bits of the DWORD.
Shl(x, n) == x * (2 ^ n)
Shr(x, n) == x \div (2 ^ n)

\* `~x`, in the 31 low bits; a packed message has no higher bit set.
BitNot(x) == 2147483647 - x

\* static_cast<unsigned char>(x)
UChar(x) == x % 256

\* CMIDIOutDevice::PackShortMsg(Msg, Status, DataByte1, DataByte2): both
\* data bytes are shifted by SHORT_MSG_SHIFT.
PackShortMsg_Status(Status, DataByte1, DataByte2) ==
    BitOr(BitOr(Status, Shl(DataByte1, SHORT_MSG_SHIFT)),
          Shl(DataByte2, SHORT_MSG_SHIFT))

\* CMIDIOutDevice::PackShortMsg(Msg, Command, Channel, DataByte1, DataByte2)
PackShortMsg_Channel(Command, Channel, DataByte1, DataByte2) ==
    BitOr(BitOr(BitOr(Command, Channel), Shl(DataByte1, SHORT_MSG_SHIFT)),
          Shl(DataByte2, SHORT_MSG_SHIFT * 2))

\* CMIDIInDevice::UnpackShortMsg(Msg, Status, DataByte1, DataByte2)
UnpackShortMsg_Status(Msg) ==
    [Status |-> UChar(Msg),
     Channel |-> 0,
     DataByte1 |-> UChar(Shr(Msg, SHORT_MSG_SHIFT)),
     DataByte2 |-> UChar(Shr(Msg, SHORT_MSG_SHIFT * 2))]

\* CMIDIInDevice::UnpackShortMsg(Msg, Command, Channel, DataByte1, DataByte2)
UnpackShortMsg_Channel(Msg) ==
    [Status |-> UChar(BitAnd(Msg, BitNot(SHORT_MSG_MASK))),
     Channel |-> UChar(BitAnd(Msg, SHORT_MSG_MASK)),
     DataByte1 |-> UChar(Shr(Msg, SHORT_MSG_SHIFT)),
     DataByte2 |-> UChar(Shr(Msg, SHORT_MSG_SHIFT * 2))]

\* Arguments the functions are applied to: every status or command byte,
\* every channel, and data bytes with each bit set in one of them.
StatusBytes == 0 .. 255
Channels == 0 .. 15
DataBytes == {0, 1, 42, 64, 85, 127}

NoResult == [Status |-> 0, Channel |-> 0, DataByte1 |-> 0, DataByte2 |-> 0]

PackArgs(form, s, c, d1, d2) ==
    [pc |-> "args", form |-> form, Msg |-> 0, result |-> NoResult,
     arg |-> [Status |-> s, Channel |-> c, DataByte1 |-> d1, DataByte2 |-> d2]]

sessionVars == <<dev, evH, devVars, hdrVars, wrkVars, cbVars, ctlVars>>

Pack_Status ==
    /\ dev = "pack"
    /\ sm.pc = "args"
    /\ sm.form = "status"
    /\ sm' = [sm EXCEPT !.pc = "packed",
                        !.Msg = PackShortMsg_Status(sm.arg.Status,
                                    sm.arg.DataByte1, sm.arg.DataByte2)]
    /\ UNCHANGED sessionVars

Pack_Channel ==
    /\ dev = "pack"
    /\ sm.pc = "args"
    /\ sm.form = "channel"
    /\ sm' = [sm EXCEPT !.pc = "packed",
                        !.Msg = PackShortMsg_Channel(sm.arg.Status, sm.arg.Channel,
                                    sm.arg.DataByte1, sm.arg.DataByte2)]
    /\ UNCHANGED sessionVars

Unpack_Status ==
    /\ dev = "pack"
    /\ sm.pc = "packed"
    /\ sm.form = "status"
    /\ sm' = [sm EXCEPT !.pc = "unpacked", !.result = UnpackShortMsg_Status(sm.Msg)]
    /\ UNCHANGED sessionVars

Unpack_Channel ==
    /\ dev = "pack"
    /\ sm.pc = "packed"
    /\ sm.form = "channel"
    /\ sm' = [sm EXCEPT !.pc = "unpacked", !.result = UnpackShortMsg_Channel(sm.Msg)]
    /\ UNCHANGED sessionVars

NextPack ==
    \/ Pack_Status
    \/ Pack_Channel
    \/ Unpack_Status
    \/ Unpack_Channel

InitPack ==
    /\ dev = "pack"
    /\ InitSession
    /\ evH = "valid"
    /\ \E s \in StatusBytes, d1 \in DataBytes, d2 \in DataBytes :
         \/ sm = PackArgs("status", s, 0, d1, d2)
         \/ \E c \in Channels : sm = PackArgs("channel", s, c, d1, d2)

\* The short-message functions applied to each of these arguments.
SpecPack == InitPack /\ [][NextPack]_vars

\* ======================================================= properties
AtReturn(d, o) == dev = d /\ ctlPc = "idle" /\ op = o

Destroyed(h) == unprep[h] >= 1

\* ------------------------------------------------------------------ C1
\* C1: when StopRecording, called while RECORDING, has returned, the header
\* queue is empty and the state is OPENED, whatever the workers and the
\* driver callback did before, during and after the call.
C1_StopLeavesQueueEmpty ==
    (AtReturn("in", "StopRecording") /\ preState = RECORDING)
        => (QEmpty(m_HdrQueue) /\ m_State = OPENED)

\* StopRecording has returned after two headers were enqueued and destroyed,
\* and a worker is still alive.
C1_Witness ==
    /\ AtReturn("in", "StopRecording")
    /\ preState = RECORDING
    /\ \A h \in Hdrs : h \in queued /\ Destroyed(h)
    /\ \E w \in Workers : wpc[w] \in {"w_wait", "w_if", "w_remove"}

\* ------------------------------------------------------------------ C2
\* C2: no header is destroyed (unprepared) more than once; a header that was
\* enqueued and is no longer in the queue was destroyed exactly once; and a
\* destroyed header is in the queue only while the thread that destroyed it is
\* still inside the critical section, about to pop it.
C2_DestroyedOnce ==
    \A h \in Hdrs :
        /\ unprep[h] <= 1
        /\ (h \in queued /\ h \notin QElems(m_HdrQueue)) => unprep[h] = 1
        /\ (h \in QElems(m_HdrQueue) /\ Destroyed(h))
              => (csOwner # NoThread /\ h = QFront(m_HdrQueue))

\* RemoveAll on the control thread holds the section between delete and pop
\* while a worker is at RemoveHeader, and a header was destroyed before.
C2_Witness ==
    /\ csOwner = Ctl
    /\ \E w \in Workers : wpc[w] = "w_remove"
    /\ \E h \in Hdrs : h \in queued /\ h \notin QElems(m_HdrQueue) /\ Destroyed(h)
    /\ \E h \in Hdrs : h \in QElems(m_HdrQueue) /\ Destroyed(h)

\* ------------------------------------------------------------------ C5
\* C5: headers are destroyed in the order in which they were enqueued: the
\* queue holds the headers in the order of their submission, and a header that
\* was enqueued and destroyed is not newer than any header in the queue.
C5_Fifo ==
    /\ \A i, j \in 1 .. Len(m_HdrQueue) : i < j => m_HdrQueue[i] < m_HdrQueue[j]
    /\ \A h \in queued : Destroyed(h) => \A g \in QElems(m_HdrQueue) : h <= g

\* The older of two enqueued headers is destroyed and gone, the newer one is
\* still in the queue, intact.
C5_Witness ==
    /\ csOwner = NoThread
    /\ Len(m_HdrQueue) = 1
    /\ ~Destroyed(m_HdrQueue[1])
    /\ \E h \in queued : Destroyed(h) /\ h < m_HdrQueue[1]

\* ------------------------------------------------------------------ C3
\* Close of the input device has returned without error from a call made
\* while RECORDING.
C3_Closed == AtReturn("in", "Close") /\ preState = RECORDING /\ err = "none"

C3_RegistryEmptyAndClosed ==
    C3_Closed => (QEmpty(m_HdrQueue) /\ m_State = CLOSED)

\* C3: after any number of buffers and completions while RECORDING, a Close
\* whose driver close succeeds returns with the queue empty and the state
\* CLOSED, and, the application making no further call, the worker spawned
\* for that recording session eventually terminates.
C3_CloseTerminatesWorker ==
    /\ [](C3_RegistryEmptyAndClosed)
    /\ (C3_Closed ~> (~C3_Closed \/ wpc[nSpawn] = "done"))

\* ------------------------------------------------------------------ C4
\* StartRecording, called while OPENED, has returned after the driver
\* rejected midiInStart.
C4_Rejected ==
    /\ AtReturn("in", "StartRecording")
    /\ preState = OPENED
    /\ Len(calls) >= 2
    /\ calls[2] = <<"midiInStart", FALSE>>

C4_FailsInOpened == C4_Rejected => (err = "DriverError" /\ m_State = OPENED)

\* C4: a StartRecording that the driver rejects fails with the driver error
\* and returns in state OPENED, and, the application making no further call,
\* the worker spawned by that call eventually terminates.
C4_RollbackTerminatesWorker ==
    /\ [](C4_FailsInOpened)
    /\ (C4_Rejected ~> (~C4_Rejected \/ wpc[nSpawn] = "done"))

\* ------------------------------------------------------------------ C6
\* The position in the call record of the driver open, 0 when there is none.
OpenCallAt ==
    IF \E i \in 1 .. Len(calls) : calls[i][1] \in {"midiInOpen", "midiOutOpen"}
    THEN CHOOSE i \in 1 .. Len(calls) : calls[i][1] \in {"midiInOpen", "midiOutOpen"}
    ELSE 0

\* Open, called while not CLOSED, asks the driver to open only after the
\* steps of Close: the stop of the recording when RECORDING, and the driver
\* close.
C6_ClosesFirst ==
    (ctlPc = "idle" /\ op = "Open" /\ preState # CLOSED /\ OpenCallAt # 0) =>
        /\ \E j \in 1 .. OpenCallAt - 1 :
               /\ calls[j][1] \in {"midiInClose", "midiOutClose"}
               /\ \A k \in 1 .. j - 1 :
                      calls[k][1] \in {"SetEvent", "midiInReset", "RemoveAll"}
        /\ (preState = RECORDING) =>
               SubSeq(calls, 1, 3) = <<<<"SetEvent", TRUE>>, <<"midiInReset", TRUE>>,
                                       <<"RemoveAll", TRUE>>>>

C6_AtMostOneHandle == OpenHandles <= 1

C6_OneHandleAfterOpen ==
    (ctlPc = "idle" /\ op = "Open" /\ err = "none") => (hOpen /\ OpenHandles = 1)

\* C6: Open called while OPENED or RECORDING performs Close first and then
\* opens the device; the session never has more than one handle open in the
\* driver, and has exactly one when Open has returned without error.
C6_OpenLeavesOneHandle ==
    /\ C6_ClosesFirst
    /\ C6_AtMostOneHandle
    /\ C6_OneHandleAfterOpen

\* ------------------------------------------------------------------ C7
\* The driver accepted the preparation of header Header and rejected its
\* submission, and the call has ended.
SubmissionRejected ==
    /\ ctlPc = "idle"
    /\ Header # 0
    /\ Len(calls) = 2
    /\ calls[2] \in {<<"midiInAddBuffer", FALSE>>, <<"midiOutLongMsg", FALSE>>}

\* C7: when the driver rejects the submission of a prepared header, the
\* header is unprepared exactly once before the call ends and is not
\* enqueued; between calls, every header that was prepared and is not in the
\* queue has been unprepared.
C7_RejectedHeaderDestroyed ==
    /\ SubmissionRejected =>
           (unprep[Header] = 1 /\ Header \notin QElems(m_HdrQueue))
    /\ (ctlPc = "idle") =>
           \A h \in 1 .. nHdr : h \notin QElems(m_HdrQueue) => Destroyed(h)

\* ------------------------------------------------------------------ C8
\* C8: when the driver rejects the submission of a prepared header, the call
\* ends with the driver error, the header was never put in the queue, and the
\* state is the one the call began in.
C8_RejectedSubmissionReported ==
    SubmissionRejected =>
        /\ err = "DriverError"
        /\ Header \notin queued
        /\ m_State = preState

\* ------------------------------------------------------------------ C9
\* Open has returned after the driver refused to open the device.
OpenRefused ==
    /\ ctlPc = "idle"
    /\ op = "Open"
    /\ OpenCallAt # 0
    /\ calls[OpenCallAt][2] = FALSE

\* C9: when the driver refuses to open the device, Open ends with the driver
\* error, in state CLOSED, the session having no handle open in the driver,
\* whatever the state Open was called in.
C9_FailedOpenLeavesClosed ==
    OpenRefused =>
        /\ err = "DriverError"
        /\ m_State = CLOSED
        /\ OpenHandles = 0

\* ------------------------------------------------------------------ C10
CloseCalls(closed) ==
    CASE preState = RECORDING ->
            <<<<"SetEvent", TRUE>>, <<"midiInReset", TRUE>>,
              <<"RemoveAll", TRUE>>, <<"midiInClose", closed>>>>
      [] preState = OPENED -> <<<<"midiInClose", closed>>>>
      [] OTHER -> <<>>

\* C10: Close of the input device, called while RECORDING, sets the event,
\* resets the driver, empties the queue and then closes the handle; called
\* while OPENED it closes the handle; in both cases the state on return is
\* CLOSED when the driver closed the handle; called while CLOSED it makes no
\* call and leaves the state CLOSED.
C10_Close ==
    AtReturn("in", "Close") =>
        /\ calls = CloseCalls(err = "none")
        /\ (err = "none") => (m_State = CLOSED /\ ~hOpen)
        /\ (preState = RECORDING) => QEmpty(m_HdrQueue)

\* Close has returned from a call made while RECORDING, after destroying a
\* header.
C10_Witness ==
    /\ AtReturn("in", "Close")
    /\ preState = RECORDING
    /\ err = "none"
    /\ \E h \in queued : Destroyed(h)

\* ------------------------------------------------------------------ C11
\* Positions of HeaderProc at which the thread has not returned.
WorkerAlive(w) == wpc[w] \in {"w_while", "w_wait", "w_if", "w_remove", "w_pop"}

\* The session is in its streaming state and the call that put it there has
\* returned: RECORDING after StartRecording on the input device, OPENED
\* after Open on the output device.
SessionRunning ==
    \/ dev = "in" /\ m_State = RECORDING /\ ctlPc # "Start_316"
    \/ dev = "out" /\ m_State = OPENED

\* C11: from the successful return of StartRecording (input) or Open
\* (output) until the session leaves the streaming state, the worker thread
\* created for that session is alive, however the new thread is scheduled
\* relative to the assignment of m_State.
C11_WorkerAliveWhileRunning ==
    SessionRunning => (nSpawn >= 1 /\ WorkerAlive(nSpawn))

\* ------------------------------------------------------------------ C12
\* The callback sets the event only on leaving the receiver's dispatch, and
\* entering the dispatch does not set it.
C12_DispatchBeforeSignal ==
    [][/\ (cbPc = "idle" /\ cbPc' = "cb_dispatch") => (m_Event' = m_Event)
       /\ (dev = "in" /\ ~m_Event /\ m_Event' /\ ctlPc' = ctlPc)
              => (cbPc = "cb_dispatch" /\ cbPc' = "idle")]_vars

\* C12: while the receiver is being called for a long-data or long-error
\* event, which the callback does before it sets the event, the header of
\* that buffer has not been destroyed (unprepared), whatever the workers and
\* StopRecording/Close on the control thread do meanwhile.
C12_HeaderLivesThroughDispatch ==
    (dev = "in" /\ cbPc = "cb_dispatch") => ~Destroyed(cbHdr)

\* ------------------------------------------------------------------ C13
\* The bytes of a packed message, low byte first.
MsgByte(Msg, i) == UChar(Shr(Msg, SHORT_MSG_SHIFT * i))

\* C13: a packed short message has the status byte (the command combined
\* with the channel in the channel form) in byte 0, data byte 1 in byte 1,
\* data byte 2 in byte 2 and zero in byte 3, and unpacking it gives back every
\* argument of the packing, for every status or command byte in 0..255 and
\* data bytes in 0..127.
C13_PackUnpackRoundTrip ==
    /\ (sm.pc \in {"packed", "unpacked"}) =>
           /\ MsgByte(sm.Msg, 0) = BitOr(sm.arg.Status, sm.arg.Channel)
           /\ MsgByte(sm.Msg, 1) = sm.arg.DataByte1
           /\ MsgByte(sm.Msg, 2) = sm.arg.DataByte2
           /\ MsgByte(sm.Msg, 3) = 0
    /\ (sm.pc = "unpacked") => (sm.result = sm.arg)

\* ------------------------------------------------------------------ C14
\* The driver is asked to close a handle only while that handle is open.
C14_NoDoubleClose ==
    /\ (dev = "in" /\ ctlPc = "Close_242" /\ m_State = OPENED) => hOpen
    /\ (dev = "out" /\ ctlPc = "OClose_252") => hOpen

\* C14: between the calls of the control thread, the session has a handle
\* open in the driver exactly when its state is not CLOSED, also after a
\* close that the driver refused, and no handle is closed twice.
C14_HandleIffNotClosed ==
    /\ (ctlPc = "idle" /\ dev \in {"in", "out"}) =>
           /\ (m_State = CLOSED) <=> (OpenHandles = 0)
           /\ (m_State # CLOSED) <=> (hOpen /\ OpenHandles = 1)
    /\ C14_NoDoubleClose

\* ------------------------------------------------------------------ C15
\* C15: when CreateThread fails in StartRecording, the step that made the
\* call ends the operation with the thread failure, in state OPENED, with
\* no other call made (no midiInStart, no SetEvent), and leaves the event,
\* the queue, the headers, the workers and the handle as they were.
C15_ThreadFailureLeavesOpened ==
    [][(/\ dev = "in"
        /\ ctlPc = "Start_300"
        /\ calls' # <<>>
        /\ calls'[1] = <<"CreateThread", FALSE>>)
       => (/\ ctlPc' = "idle"
           /\ err' = "ThreadFailure"
           /\ calls' = <<<<"CreateThread", FALSE>>>>
           /\ m_State = OPENED
           /\ UNCHANGED <<m_State, m_Event, m_HdrQueue, hOpen, hdrVars, wrkVars>>)]_vars

\* StartRecording has failed on CreateThread with a header in the queue and
\* a worker of an earlier call alive.
C15_Witness ==
    /\ AtReturn("in", "StartRecording")
    /\ calls = <<<<"CreateThread", FALSE>>>>
    /\ err = "ThreadFailure"
    /\ m_HdrQueue # <<>>
    /\ \E w \in Workers : WorkerAlive(w)

\* ------------------------------------------------------------------ C16
\* The constructor has ended after CreateEvent failed.
C16_EventFailed ==
    /\ ctlPc = "idle"
    /\ op = "Construct"
    /\ \E i \in 1 .. Len(calls) : calls[i] = <<"CreateEvent", FALSE>>

\* Once the construction has failed on CreateEvent, the worker that Open
\* created during the construction ends.
C16_WorkerEnds ==
    C16_EventFailed ~> (\A w \in Workers : ~WorkerAlive(w))

\* C16: when CreateEvent fails in a constructor that has opened the device,
\* the constructor ends with the event failure, the handle it opened is
\* closed and the state is CLOSED.
C16_FailedConstructionReleases ==
    C16_EventFailed =>
        /\ err = "EventFailure"
        /\ m_State = CLOSED
        /\ OpenHandles = 0

\* ------------------------------------------------------------------ C17
\* C17: AddSysExBuffer does not test the state.  When the driver accepts the
\* preparation and the submission of the header, the call goes on to
\* AddHeader, which appends that one header at the tail of the queue, and the
\* call returns without error in the state it was called in.
C17_AddAppendsInAnyState ==
    [][/\ (/\ dev = "in"
           /\ ctlPc = "Add_267"
           /\ calls' = <<<<"midiInPrepareHeader", TRUE>>, <<"midiInAddBuffer", TRUE>>>>)
          => (/\ ctlPc' = "Add_284"
              /\ Header' \notin QElems(m_HdrQueue)
              /\ UNCHANGED <<m_State, m_HdrQueue>>)
       /\ (dev = "in" /\ ctlPc = "Add_284" /\ ctlPc' # ctlPc)
          => (/\ ctlPc' = "idle"
              /\ err' = "none"
              /\ m_HdrQueue' = Append(m_HdrQueue, Header)
              /\ m_State' = m_State
              /\ m_State = preState)]_vars

\* AddSysExBuffer, called while CLOSED with a header already in the queue,
\* has returned with its header at the tail.
C17_Witness ==
    /\ AtReturn("in", "AddSysExBuffer")
    /\ err = "none"
    /\ preState = CLOSED
    /\ Len(m_HdrQueue) = 2
    /\ m_HdrQueue[2] = Header

\* ------------------------------------------------------------------ C18
\* Threads between the EnterCriticalSection and the LeaveCriticalSection of
\* a queue operation.
ThreadsInside == {t \in Workers : wpc[t] \in QueueInside}

C18_MutualExclusion ==
    /\ Cardinality(ThreadsInside) <= 1
    /\ \A t \in Workers : (csOwner = Worker(t)) <=> (t \in ThreadsInside)

\* C18: at most one thread is inside AddHeader, RemoveHeader, RemoveAll or
\* IsEmpty at a time, the section is held by a thread exactly while that
\* thread is inside one of them (it is released on every path), and every
\* call of them returns.
C18_ExclusiveAndComplete ==
    /\ [](C18_MutualExclusion)
    /\ \A t \in Workers : (wpc[t] # "none") ~> (wpc[t] = "none")

\* A thread is inside RemoveAll, between delete and pop, with a second
\* header in the queue, while another thread is at the EnterCriticalSection
\* of AddHeader.
C18_Witness ==
    /\ dev = "queue"
    /\ \E t, u \in Workers :
         /\ wpc[t] = "ra_137"
         /\ wpc[u] = "add_106"
    /\ Len(m_HdrQueue) >= 1

\* ------------------------------------------------------------------ C19
\* The callback can take its next step whatever the owner of the critical
\* section and whatever the event: it waits for nothing.
C19_NeverWaits ==
    /\ (dev = "in" /\ cbPc = "idle" /\ drvPending # <<>>)
           => ENABLED (In_MidiInProc_Long("MIM_LONGDATA"))
    /\ (dev = "in" /\ cbPc = "cb_dispatch") => ENABLED In_MidiInProc_Signal
    /\ (dev = "out" /\ drvPending # <<>>) => ENABLED Out_MidiOutProc_Done

\* C19: a step of MidiInProc or MidiOutProc waits for nothing, never takes
\* the critical section of the queue, and changes nothing but the dispatch
\* in progress, the driver's list of finished buffers and the event, which
\* it can only set: the state, the handle, the queue, the headers, the
\* workers and the control thread are as before.
C19_CallbackOnlyDispatchesAndSignals ==
    /\ [](C19_NeverWaits)
    /\ [][(InCallbackStep \/ OutCallbackStep) =>
             /\ UNCHANGED <<m_State, hOpen, leaked, evH, m_HdrQueue, csOwner,
                            nHdr, unprep, queued, wrkVars, ctlVars>>
             /\ m_Event => m_Event']_vars

\* The callback is in the receiver's dispatch while the control thread holds
\* the critical section of the queue, and the session is no longer
\* recording.
C19_Witness ==
    /\ dev = "in"
    /\ cbPc = "cb_dispatch"
    /\ csOwner = Ctl
    /\ m_State # RECORDING

\* ------------------------------------------------------------------ C20
\* The control thread is at the test of m_State in StartRecording with a
\* state other than OPENED, or in StopRecording with a state other than
\* RECORDING.
C20_WrongState ==
    /\ dev = "in"
    /\ \/ ctlPc = "Start_300" /\ m_State # OPENED
       \/ ctlPc = "Stop_338" /\ m_State # RECORDING

\* C20: StartRecording called in a state other than OPENED and StopRecording
\* called in a state other than RECORDING return at once, without an
\* exception and without a call of CreateThread, SetEvent or the driver, and
\* leave the state, the handle, the queue and its headers, the event and the
\* workers as they were.
C20_WrongStateIsNoOp ==
    [][(C20_WrongState /\ ctlPc' # ctlPc) =>
          /\ ctlPc' = "idle"
          /\ op' \in {"StartRecording", "StopRecording"}
          /\ calls' = <<>>
          /\ err' = "none"
          /\ UNCHANGED <<m_State, hOpen, leaked, evH, m_Event, m_HdrQueue,
                         csOwner, hdrVars, wrkVars, cbVars>>]_vars

\* StartRecording has returned from a call made while recording, with a
\* header in the queue.
C20_Witness ==
    /\ AtReturn("in", "StartRecording")
    /\ preState = RECORDING
    /\ m_State = RECORDING
    /\ m_HdrQueue # <<>>
    /\ calls = <<>>

\* ------------------------------------------------------------------ C21
\* C21: a MIM_LONGDATA or MIM_LONGERROR that MidiInProc receives while the
\* state is not RECORDING only takes the buffer off the driver's list: the
\* state, the event, the queue and its headers, the position of every
\* worker and the callback itself are as before, so no worker is woken by
\* it, none removes a header because of it and none is kept from returning.
C21_LateCompletionIgnored ==
    [][((\E msg \in {"MIM_LONGDATA", "MIM_LONGERROR"} : In_MidiInProc_Long(msg))
          /\ m_State # RECORDING) =>
          UNCHANGED <<m_State, m_Event, evH, m_HdrQueue, csOwner, hOpen,
                      leaked, nHdr, unprep, queued, wrkVars, cbVars,
                      ctlVars>>]_vars

\* StopRecording has reset the driver, the worker has taken the wake of
\* StopRecording and returned, and the driver has handed the buffer back by
\* a callback in state OPENED: no wake is pending and the header is still in
\* the queue.
C21_Witness ==
    /\ dev = "in"
    /\ op = "StopRecording"
    /\ ctlPc = "Stop_350"
    /\ m_State = OPENED
    /\ nHdr = 1
    /\ m_HdrQueue = <<1>>
    /\ drvPending = <<>>
    /\ cbPc = "idle"
    /\ nSpawn = 1
    /\ wpc[1] = "done"
    /\ ~m_Event

\* ------------------------------------------------------------------ C22
\* The calls StopRecording makes when the state is RECORDING, in order.
C22_StopCalls ==
    <<<<"SetEvent", TRUE>>, <<"midiInReset", TRUE>>, <<"RemoveAll", TRUE>>>>

\* Where the control thread is in StopRecording, and what it has done there.
C22_Order ==
    dev = "in" =>
      /\ ctlPc = "Stop_344" => (m_State = OPENED /\ calls = <<>>)
      /\ ctlPc = "Stop_350" =>
            (m_State = OPENED /\ calls = SubSeq(C22_StopCalls, 1, 2))
      /\ ctlPc \in {"RemoveAll_137", "RemoveAll_136"} =>
            (m_State = OPENED /\ calls = C22_StopCalls)
      /\ (AtReturn("in", "StopRecording") /\ preState = RECORDING) =>
            (m_State = OPENED /\ calls = C22_StopCalls /\ err = "none"
               /\ m_HdrQueue = <<>>)

\* C22: StopRecording called while RECORDING sets the state to OPENED, then
\* sets the event once, then resets the driver once, then calls RemoveAll
\* once, and returns with the state OPENED and the queue empty; the control
\* thread destroys a header only after the reset.
C22_StopInOrder ==
    /\ [](C22_Order)
    /\ [][(dev = "in" /\ ctlPc = "Stop_344" /\ ctlPc' # ctlPc) =>
             (m_Event' /\ UNCHANGED <<m_State, m_HdrQueue, unprep>>)]_vars
    /\ [][(dev = "in" /\ ctlPc' # ctlPc /\ unprep' # unprep) =>
             (Len(calls') >= 2 /\ calls'[2] = <<"midiInReset", TRUE>>)]_vars

\* StopRecording, called while recording with two headers in the queue, has
\* returned.
C22_Witness ==
    /\ AtReturn("in", "StopRecording")
    /\ preState = RECORDING
    /\ calls = C22_StopCalls
    /\ nHdr = 2
    /\ \A h \in 1 .. 2 : Destroyed(h)
    /\ drvPending = <<1, 2>>

\* ------------------------------------------------------------------ C23
\* The call the control thread has just logged is a rejected
\* midiInPrepareHeader / midiOutPrepareHeader.
C23_PrepareRejected ==
    /\ calls' # calls
    /\ calls' # <<>>
    /\ calls'[Len(calls')] \in {<<"midiInPrepareHeader", FALSE>>,
                                <<"midiOutPrepareHeader", FALSE>>}

\* C23: when the driver rejects the preparation of the header,
\* AddSysExBuffer and the long SendMsg end there with the driver's error:
\* the rejected prepare is the only call made, no header exists, none is
\* given to the driver, queued or unprepared, and the state, the handle and
\* the event are unchanged.
C23_RejectedPrepareAcquiresNothing ==
    [][C23_PrepareRejected =>
          /\ calls' = <<calls'[1]>>
          /\ ctlPc' = "idle"
          /\ err' = "DriverError"
          /\ op' \in {"AddSysExBuffer", "SendMsg"}
          /\ UNCHANGED <<m_State, m_Event, evH, hOpen, leaked, m_HdrQueue,
                         csOwner, nHdr, unprep, drvPending, queued, wrkVars,
                         cbVars>>]_vars

\* The long SendMsg has ended with the driver's error after a rejected
\* midiOutPrepareHeader, a first header being in the queue.
C23_Witness ==
    /\ AtReturn("out", "SendMsg")
    /\ calls = <<<<"midiOutPrepareHeader", FALSE>>>>
    /\ err = "DriverError"
    /\ nHdr = 1
    /\ m_HdrQueue = <<1>>
    /\ m_State = OPENED

\* ------------------------------------------------------------------ C24
\* C24: a header that a worker's RemoveHeader has deleted and is about to pop
\* is one the driver has handed back: it is no longer among the buffers the
\* driver holds.
C24_WorkerReclaimsOnlyCompleted ==
    \A w \in Workers :
        (wpc[w] = "w_pop" /\ csOwner = Worker(w)) =>
            QFront(m_HdrQueue) \notin QElems(drvPending)

\* ------------------------------------------------------------------ C25
\* C25: a worker created before the newest one has returned from HeaderProc,
\* or else it is on its way out: it removes no header, and it is not alive
\* in a session that a later StartRecording (input) or Open (output) has
\* started.
C25_OneWorkerPerSession ==
    \A w \in Workers :
        (w < nSpawn /\ WorkerAlive(w)) =>
            (wpc[w] \notin {"w_remove", "w_pop"} /\ ~SessionRunning)

\* ------------------------------------------------------------------ C26
\* C26: whenever the input device is CLOSED its queue is empty, so that no
\* header is left to be unprepared on a handle the driver has closed.
C26_ClosedMeansEmptyQueue ==
    (dev = "in" /\ m_State = CLOSED) => QEmpty(m_HdrQueue)

\* ------------------------------------------------------------------ C27
\* Close of the input device has ended after the driver refused midiInClose.
C27_CloseRefused ==
    /\ dev = "in"
    /\ ctlPc = "idle"
    /\ op \in {"Close", "Open"}
    /\ calls # <<>>
    /\ calls[Len(calls)] = <<"midiInClose", FALSE>>

\* C27: when the driver refuses midiInClose, Close ends with the driver's
\* error in state OPENED, the handle still open, and with the queue empty if
\* it was called while RECORDING; an Open whose Close is refused ends with
\* that error in the same way, midiInClose being the last driver call it
\* made: midiInOpen is not called.
C27_RefusedCloseLeavesOpened ==
    /\ C27_CloseRefused =>
          /\ err = "DriverError"
          /\ m_State = OPENED
          /\ hOpen
          /\ calls = CloseCalls(FALSE)
          /\ (preState = RECORDING) => QEmpty(m_HdrQueue)
    /\ (AtReturn("in", "Open") /\ OpenCallAt # 0) =>
          \A i \in 1 .. Len(calls) : calls[i] # <<"midiInClose", FALSE>>

\* Open, called while RECORDING with a header in the queue, has ended with
\* the driver's error because midiInClose was refused.
C27_Witness ==
    /\ C27_CloseRefused
    /\ op = "Open"
    /\ preState = RECORDING
    /\ \E h \in queued : Destroyed(h)

\* ------------------------------------------------------------------ C28
\* A streaming session at its beginning: RECORDING, its one worker alive, and
\* no header constructed yet, so that every header of the run is queued, and
\* every completion delivered, while the state is RECORDING, for as long as
\* it stays RECORDING.
C28_SessionBegins ==
    /\ dev = "in"
    /\ m_State = RECORDING
    /\ nSpawn = 1
    /\ WorkerAlive(1)
    /\ nHdr = 0

\* Every header in the queue is still held by the driver, or MidiInProc is
\* in the dispatch for it and has not yet set the event.
C28_NoCompletedInQueue ==
    \A h \in QElems(m_HdrQueue) :
        \/ h \in QElems(drvPending)
        \/ cbPc = "cb_dispatch" /\ cbHdr = h

\* C28: in a session that stays RECORDING every header whose completion the
\* callback has signalled is eventually removed by the worker: from some
\* point on the queue holds no completed header.
C28_CompletionsReclaimed ==
    [](C28_SessionBegins =>
          (<>(m_State # RECORDING) \/ <>[]C28_NoCompletedInQueue))

\* ------------------------------------------------------------------ C29
\* Close of the output device, called while OPENED, has returned.
C29_Closed == AtReturn("out", "Close") /\ preState = OPENED

\* Where the control thread is in Close of the output device, and what it
\* has done there.
C29_Order ==
    dev = "out" =>
      /\ ctlPc = "OClose_246" => (m_State = CLOSED /\ calls = <<>>)
      /\ ctlPc = "OClose_249" =>
            (m_State = CLOSED /\ calls = <<<<"SetEvent", TRUE>>>>)
      /\ ctlPc \in {"ORemoveAll_134", "ORemoveAll_133"} =>
            (m_State = CLOSED
               /\ calls = <<<<"SetEvent", TRUE>>, <<"RemoveAll", TRUE>>>>)
      /\ ctlPc = "OClose_252" =>
            /\ m_State = CLOSED
            /\ calls = <<<<"SetEvent", TRUE>>, <<"RemoveAll", TRUE>>>>
            /\ QEmpty(m_HdrQueue)
            /\ \A h \in 1 .. nHdr : Destroyed(h)
      /\ C29_Closed =>
            /\ m_State = CLOSED
            /\ QEmpty(m_HdrQueue)
            /\ err = "none"
            /\ Len(calls) = 3
            /\ SubSeq(calls, 1, 2) = <<<<"SetEvent", TRUE>>, <<"RemoveAll", TRUE>>>>
            /\ calls[3][1] = "midiOutClose"
      /\ (AtReturn("out", "Close") /\ preState = CLOSED) =>
            (m_State = CLOSED /\ calls = <<>> /\ err = "none")

\* Close called while CLOSED changes nothing.
C29_ClosedIsNoOp ==
    [][(dev = "out" /\ op = "Close" /\ ctlPc = "OClose_240"
          /\ m_State # OPENED /\ ctlPc' # ctlPc) =>
          (ctlPc' = "idle"
             /\ UNCHANGED <<m_State, m_Event, hOpen, leaked, m_HdrQueue,
                            csOwner, hdrVars, wrkVars, calls, err>>)]_vars

\* C29: Close of the output device, called while OPENED, sets the state to
\* CLOSED, then sets the event once, then empties the queue, then calls
\* midiOutClose; it returns with the state CLOSED and the queue empty whatever
\* midiOutClose returns, every header having been unprepared before
\* midiOutClose; every worker that is alive then returns from HeaderProc, the
\* application making no further call; and Close called while CLOSED changes
\* nothing.
C29_CloseOut ==
    /\ [](C29_Order)
    /\ C29_ClosedIsNoOp
    /\ \A w \in Workers :
          C29_Closed ~> (~C29_Closed \/ ~WorkerAlive(w))

====
